---- MODULE Spec2Model ----
(***************************************************************************)
(* Model of scripts/test-integration.py: a sequential runner of four       *)
(* integration test cases against the notification service.  The program   *)
(* is a single thread; its position is pc/cur.  The remote service and the *)
(* passage of time while a requests call blocks are the environment.       *)
(***************************************************************************)
EXTENDS Integers, Sequences, FiniteSets, TLC

VARIABLES environ, pc, cur, results, inflight, reply, ret, httpLog, calls,
          out, passed, failed, skipped, exitCode

vars == <<environ, pc, cur, results, inflight, reply, ret, httpLog, calls,
          out, passed, failed, skipped, exitCode>>

----------------------------------------------------------------------------
(* Python values *)

None == "None"
True == "True"
False == "False"

\* marker of a variable absent from the process environment
Unset == "<unset>"

\* completion of a test function by an exception that left the function
Raised == "<raised>"

\* exit status of the interpreter after an uncaught exception
UncaughtExit == 1

----------------------------------------------------------------------------
(* Configuration, lines 14-16 *)

Environments ==
    [NOTIFICATION_SERVICE_URL : {Unset, "http://localhost:3000"},
     TELEGRAM_BOT_TOKEN : {Unset, "", "123:abc"}]

getenv(name, default) ==
    IF environ[name] = Unset THEN default ELSE environ[name]

SERVICE_URL == getenv("NOTIFICATION_SERVICE_URL", "https://notifications.statex.cz")

BOT_TOKEN == getenv("TELEGRAM_BOT_TOKEN", "")

\* mutant: the guard written as "BOT_TOKEN is None"
not_BOT_TOKEN_isNone(tok) == tok = None

\* "not BOT_TOKEN": the empty string is falsy, line 101
not_BOT_TOKEN(tok) == tok = ""

----------------------------------------------------------------------------
(* The service and the requests library *)

POST_TIMEOUT == 10
GET_TIMEOUT == 5

Statuses == {200, 201, 404, 500}

JsonBody == "{\"status\":\"ok\"}"
TextBody == "Internal Server Error"
Bodies == {JsonBody, TextBody}

\* transport failures raised by requests.post / requests.get
TransportErrors == {"ConnectionError"}

NoResponse == [kind |-> "none", status |-> 0, body |-> "", exc |-> ""]

Response(status, body) ==
    [kind |-> "response", status |-> status, body |-> body, exc |-> ""]

Exception(e) ==
    [kind |-> "exception", status |-> 0, body |-> "", exc |-> e]

\* response.json(): the parsed document, or the exception it raises
response_json(body) ==
    CASE body = JsonBody -> [ok |-> TRUE, dumps |-> "{\n  \"status\": \"ok\"\n}"]
      [] OTHER -> [ok |-> FALSE, dumps |-> "JSONDecodeError"]

\* mutant: only ValueError (the JSON error) is caught
except_ValueError(e) == e \in {"JSONDecodeError"}

\* "except Exception": RequestException and JSONDecodeError derive from it
except_Exception(e) == e \in {"ConnectionError", "Timeout", "JSONDecodeError"}

\* mutant: requests called without a timeout for the health check
timed_out_post_only(call) == call.method = "POST" /\ call.elapsed >= call.timeout

\* the blocking call gives up when the bounded wait has elapsed
timed_out(call) == call.elapsed >= call.timeout

----------------------------------------------------------------------------
(* The test functions *)

\* mutant: the keyboard case and the credential case swapped
TESTS_swapped ==
    << [name |-> "Basic Telegram", fn |-> "test_basic_telegram"],
       [name |-> "Telegram with Bot Token", fn |-> "test_telegram_with_bot_token"],
       [name |-> "Telegram with Keyboard", fn |-> "test_telegram_with_keyboard"],
       [name |-> "Health Check", fn |-> "test_health_check"] >>

\* mutant: the health check run a second time
TESTS_repeated ==
    << [name |-> "Basic Telegram", fn |-> "test_basic_telegram"],
       [name |-> "Telegram with Keyboard", fn |-> "test_telegram_with_keyboard"],
       [name |-> "Telegram with Bot Token", fn |-> "test_telegram_with_bot_token"],
       [name |-> "Health Check", fn |-> "test_health_check"],
       [name |-> "Health Check", fn |-> "test_health_check"] >>

\* the calls of main(), in the order of lines 171-174
TESTS ==
    << [name |-> "Basic Telegram", fn |-> "test_basic_telegram"],
       [name |-> "Telegram with Keyboard", fn |-> "test_telegram_with_keyboard"],
       [name |-> "Telegram with Bot Token", fn |-> "test_telegram_with_bot_token"],
       [name |-> "Health Check", fn |-> "test_health_check"] >>

SendFns == {"test_basic_telegram", "test_telegram_with_keyboard",
            "test_telegram_with_bot_token"}

\* mutant: the send cases accept 200 only
SendAccepted_200 == {200}

\* "response.status_code in [200, 201]"
SendAccepted == {200, 201}

\* mutant: the health check accepts what the send cases accept
HealthAccepted_201 == {200, 201}

\* "response.status_code == 200"
HealthAccepted == {200}

Accepted(fn) == IF fn = "test_health_check" THEN HealthAccepted ELSE SendAccepted

Request(fn, method, path, keys, timeout) ==
    [by |-> fn, method |-> method, url |-> SERVICE_URL \o path,
     json |-> keys, timeout |-> timeout, elapsed |-> 0]

BasePayload == {"channel", "type", "recipient", "message"}

\* mutant: PASSED is reported before the body is parsed
finish_noparse(accepted, r) ==
    IF r.kind = "exception"
    THEN IF except_Exception(r.exc)
         THEN [ret |-> False, lines |-> << "ERROR: " \o r.exc >>]
         ELSE [ret |-> Raised, lines |-> << >>]
    ELSE IF r.status \in accepted
         THEN [ret |-> True,
               lines |-> << "PASSED (HTTP " \o ToString(r.status) \o ")",
                            response_json(r.body).dumps >>]
         ELSE [ret |-> False,
               lines |-> << "FAILED (HTTP " \o ToString(r.status) \o ")", r.body >>]

\* the try block of a test function once requests returned or raised:
\* the value the function returns (or Raised) and the lines it prints
finish(accepted, r) ==
    IF r.kind = "exception"
    THEN IF except_Exception(r.exc)
         THEN [ret |-> False, lines |-> << "ERROR: " \o r.exc >>]
         ELSE [ret |-> Raised, lines |-> << >>]
    ELSE IF r.status \in accepted
         THEN IF response_json(r.body).ok
              THEN [ret |-> True,
                    lines |-> << "PASSED (HTTP " \o ToString(r.status) \o ")",
                                 response_json(r.body).dumps >>]
              ELSE IF except_Exception("JSONDecodeError")
                   THEN [ret |-> False, lines |-> << "ERROR: JSONDecodeError" >>]
                   ELSE [ret |-> Raised, lines |-> << >>]
         ELSE [ret |-> False,
               lines |-> << "FAILED (HTTP " \o ToString(r.status) \o ")", r.body >>]

----------------------------------------------------------------------------
(* Summary *)

RECURSIVE CountIs(_, _)
CountIs(rs, v) ==
    IF rs = << >> THEN 0
    ELSE (IF Head(rs)[2] = v THEN 1 ELSE 0) + CountIs(Tail(rs), v)

\* mutant: "if not result" instead of "if result is False"
count_failed_falsy(rs) == CountIs(rs, False) + CountIs(rs, None)

\* line 182
count_failed(rs) == CountIs(rs, False)

\* mutant: the run fails only from the second failure on
exit_status_gt1(nfailed) == IF nfailed > 1 THEN 1 ELSE 0

\* lines 191-194: sys.exit(1), or falling off main() which exits with 0
exit_status(nfailed) == IF nfailed > 0 THEN 1 ELSE 0

status_line(r) ==
    r[1] \o ": " \o (IF r[2] = True THEN "PASSED"
                     ELSE IF r[2] = False THEN "FAILED" ELSE "SKIPPED")

RECURSIVE status_lines(_)
status_lines(rs) ==
    IF rs = << >> THEN << >> ELSE << status_line(Head(rs)) >> \o status_lines(Tail(rs))

----------------------------------------------------------------------------
Init ==
    /\ environ \in Environments
    /\ pc = "main"
    /\ cur = 1
    /\ results = << >>
    /\ inflight = << >>
    /\ reply = NoResponse
    /\ ret = ""
    /\ httpLog = << >>
    /\ calls = << >>
    /\ out = << >>
    /\ passed = 0 /\ failed = 0 /\ skipped = 0
    /\ exitCode = -1

\* main(), lines 161-168
main_start ==
    /\ pc = "main"
    /\ out' = << "Testing Notification Microservice", "Service URL: " \o SERVICE_URL,
                 "Bot Token: " \o (IF BOT_TOKEN /= "" THEN "Provided" ELSE "Using global") >>
    /\ results' = << >>
    /\ pc' = "call"
    /\ UNCHANGED <<environ, cur, inflight, reply, ret, httpLog, calls,
                   passed, failed, skipped, exitCode>>

\* a test function is entered when main() reaches its call
AtCall(fn) == pc = "call" /\ cur <= Len(TESTS) /\ TESTS[cur].fn = fn

\* lines 19-36: blocks in requests.post
test_basic_telegram ==
    /\ AtCall("test_basic_telegram")
    /\ calls' = Append(calls, "test_basic_telegram")
    /\ out' = Append(out, "Test 1: Basic Telegram notification")
    /\ LET req == Request("test_basic_telegram", "POST", "/notifications/send",
                          BasePayload, POST_TIMEOUT)
       IN /\ inflight' = << req >>
          /\ httpLog' = Append(httpLog, req)
    /\ pc' = "await"
    /\ UNCHANGED <<environ, cur, results, reply, ret, passed, failed, skipped, exitCode>>

\* lines 52-83
test_telegram_with_keyboard ==
    /\ AtCall("test_telegram_with_keyboard")
    /\ calls' = Append(calls, "test_telegram_with_keyboard")
    /\ out' = Append(out, "Test 2: Telegram with inline keyboard")
    /\ LET req == Request("test_telegram_with_keyboard", "POST", "/notifications/send",
                          BasePayload \cup {"inlineKeyboard"}, POST_TIMEOUT)
       IN /\ inflight' = << req >>
          /\ httpLog' = Append(httpLog, req)
    /\ pc' = "await"
    /\ UNCHANGED <<environ, cur, results, reply, ret, passed, failed, skipped, exitCode>>

\* lines 99-121: returns None at once without a bot token
test_telegram_with_bot_token ==
    /\ AtCall("test_telegram_with_bot_token")
    /\ calls' = Append(calls, "test_telegram_with_bot_token")
    /\ IF not_BOT_TOKEN(BOT_TOKEN)
       THEN /\ out' = Append(out, "Test 3: Skipped (no bot token provided)")
            /\ ret' = None
            /\ pc' = "return"
            /\ UNCHANGED <<inflight, httpLog>>
       ELSE /\ out' = Append(out, "Test 3: Telegram with per-request bot token")
            /\ LET req == Request("test_telegram_with_bot_token", "POST",
                                  "/notifications/send",
                                  BasePayload \cup {"botToken"}, POST_TIMEOUT)
               IN /\ inflight' = << req >>
                  /\ httpLog' = Append(httpLog, req)
            /\ pc' = "await"
            /\ UNCHANGED ret
    /\ UNCHANGED <<environ, cur, results, reply, passed, failed, skipped, exitCode>>

\* lines 137-143: blocks in requests.get
test_health_check ==
    /\ AtCall("test_health_check")
    /\ calls' = Append(calls, "test_health_check")
    /\ out' = Append(out, "Test 4: Health check")
    /\ LET req == Request("test_health_check", "GET", "/health", {}, GET_TIMEOUT)
       IN /\ inflight' = << req >>
          /\ httpLog' = Append(httpLog, req)
    /\ pc' = "await"
    /\ UNCHANGED <<environ, cur, results, reply, ret, passed, failed, skipped, exitCode>>

\* environment: the service answers before the wait is over
service_responds(status, body) ==
    /\ pc = "await"
    /\ ~timed_out(inflight[1])
    /\ reply' = Response(status, body)
    /\ inflight' = << >>
    /\ pc' = "finish"
    /\ UNCHANGED <<environ, cur, results, ret, httpLog, calls, out,
                   passed, failed, skipped, exitCode>>

\* environment: the connection fails (refused, DNS, reset)
transport_error(e) ==
    /\ pc = "await"
    /\ ~timed_out(inflight[1])
    /\ reply' = Exception(e)
    /\ inflight' = << >>
    /\ pc' = "finish"
    /\ UNCHANGED <<environ, cur, results, ret, httpLog, calls, out,
                   passed, failed, skipped, exitCode>>

\* environment: one unit of time passes with no answer
tick ==
    /\ pc = "await"
    /\ inflight[1].elapsed < inflight[1].timeout
    /\ inflight' = << [inflight[1] EXCEPT !.elapsed = @ + 1] >>
    /\ UNCHANGED <<environ, pc, cur, results, reply, ret, httpLog, calls, out,
                   passed, failed, skipped, exitCode>>

\* requests raises Timeout when the bounded wait is over
requests_timeout ==
    /\ pc = "await"
    /\ timed_out(inflight[1])
    /\ reply' = Exception("Timeout")
    /\ inflight' = << >>
    /\ pc' = "finish"
    /\ UNCHANGED <<environ, cur, results, ret, httpLog, calls, out,
                   passed, failed, skipped, exitCode>>

\* the rest of the try/except of the running test function
test_finish ==
    /\ pc = "finish"
    /\ LET f == finish(Accepted(TESTS[cur].fn), reply)
       IN /\ ret' = f.ret
          /\ out' = out \o f.lines
    /\ pc' = "return"
    /\ UNCHANGED <<environ, cur, results, inflight, reply, httpLog, calls,
                   passed, failed, skipped, exitCode>>

\* results.append((name, test())), lines 171-174; an exception that left
\* the test function ends main() with a traceback
main_append ==
    /\ pc = "return"
    /\ IF ret = Raised
       THEN /\ exitCode' = UncaughtExit
            /\ pc' = "done"
            /\ UNCHANGED <<results, cur>>
       ELSE /\ results' = Append(results, << TESTS[cur].name, ret >>)
            /\ cur' = cur + 1
            /\ pc' = IF cur + 1 > Len(TESTS) THEN "summary" ELSE "call"
            /\ UNCHANGED exitCode
    /\ ret' = ""
    /\ reply' = NoResponse
    /\ UNCHANGED <<environ, inflight, httpLog, calls, out, passed, failed, skipped>>

\* lines 177-189
main_summary ==
    /\ pc = "summary"
    /\ passed' = CountIs(results, True)
    /\ failed' = count_failed(results)
    /\ skipped' = CountIs(results, None)
    /\ out' = out \o << "Test Summary" >> \o status_lines(results)
                  \o << "Total: " \o ToString(CountIs(results, True)) \o " passed, "
                        \o ToString(count_failed(results)) \o " failed, "
                        \o ToString(CountIs(results, None)) \o " skipped" >>
    /\ pc' = "exit"
    /\ UNCHANGED <<environ, cur, results, inflight, reply, ret, httpLog, calls, exitCode>>

\* lines 191-194
main_exit ==
    /\ pc = "exit"
    /\ exitCode' = exit_status(failed)
    /\ out' = IF failed > 0 THEN out ELSE Append(out, "All tests passed!")
    /\ pc' = "done"
    /\ UNCHANGED <<environ, cur, results, inflight, reply, ret, httpLog, calls,
                   passed, failed, skipped>>

Program ==
    \/ main_start
    \/ test_basic_telegram
    \/ test_telegram_with_keyboard
    \/ test_telegram_with_bot_token
    \/ test_health_check
    \/ test_finish
    \/ main_append
    \/ main_summary
    \/ main_exit

Clock == tick \/ requests_timeout

Service ==
    \/ \E s \in Statuses, b \in Bodies : service_responds(s, b)
    \/ \E e \in TransportErrors : transport_error(e)

Next == Program \/ Clock \/ Service

Spec == Init /\ [][Next]_vars

\* the interpreter keeps running the script, and time passes while a call
\* blocks; the service is under no obligation to answer
LiveSpec == Spec /\ WF_vars(Program) /\ WF_vars(Clock)

----------------------------------------------------------------------------
(* Properties *)

Outcomes == {r[2] : r \in {results[i] : i \in 1..Len(results)}}

OutcomeOf(name) == {results[i][2] : i \in {j \in 1..Len(results) : results[j][1] = name}}

RequestsBy(fn) == {i \in 1..Len(httpLog) : httpLog[i].by = fn}

Finished == pc \in {"summary", "exit", "done"}

Running == IF cur <= Len(TESTS) THEN TESTS[cur].fn ELSE ""

SummaryPrinted == \E i \in 1..Len(out) : out[i] = "Test Summary"

CredentialConfigured == environ.TELEGRAM_BOT_TOKEN \notin {Unset, ""}

\* C1: when the process has ended, its exit code is 1 exactly when some
\* recorded outcome is Failed and 0 otherwise; Skipped outcomes play no part.
C1_ExitCodeIffFailed ==
    pc = "done" =>
        /\ exitCode \in {0, 1}
        /\ exitCode = 1 <=> False \in Outcomes
        /\ exitCode = 0 <=> False \notin Outcomes

C1_Witness ==
    pc = "done" /\ exitCode = 0 /\ None \in Outcomes /\ True \in Outcomes

\* C2: every recorded outcome is one of Passed, Failed, Skipped, no case is
\* recorded twice, and once the summary is computed all four cases are
\* recorded and passed + failed + skipped = 4.
C2_OneOutcomeEach ==
    /\ \A i \in 1..Len(results) : results[i][2] \in {True, False, None}
    /\ \A i, j \in 1..Len(results) : results[i][1] = results[j][1] => i = j
    /\ Finished =>
          {results[i][1] : i \in 1..Len(results)} =
              {"Basic Telegram", "Telegram with Keyboard",
               "Telegram with Bot Token", "Health Check"}
    /\ pc \in {"exit", "done"} => passed + failed + skipped = 4

C2_Witness ==
    pc = "exit" /\ passed = 1 /\ failed = 2 /\ skipped = 1

\* C3: the credential case records Skipped exactly when no credential is
\* configured, in that run it issues no HTTP request, and with a credential
\* its outcome is Passed or Failed.
C3_SkippedIffNoCredential ==
    /\ \A o \in OutcomeOf("Telegram with Bot Token") :
          /\ o = None <=> ~CredentialConfigured
          /\ CredentialConfigured => o \in {True, False}
    /\ ~CredentialConfigured => RequestsBy("test_telegram_with_bot_token") = {}
    /\ (pc = "return" /\ Running = "test_telegram_with_bot_token")
          => (ret = None <=> ~CredentialConfigured)

C3_Witness ==
    /\ pc = "done"
    /\ environ.TELEGRAM_BOT_TOKEN = ""
    /\ OutcomeOf("Telegram with Bot Token") = {None}
    /\ Len(httpLog) = 3

\* C4: a transport error or timeout raised by the HTTP call is caught in
\* the test function that made the call, which returns Failed; nothing is
\* raised into main(), and the run goes on to record all four cases.
C4_TransportErrorCaught ==
    /\ ret /= Raised
    /\ (pc = "return" /\ reply.kind = "exception") => ret = False
    /\ pc = "done" => Len(results) = 4 /\ Len(calls) = 4

C4_Witness ==
    /\ pc = "done"
    /\ out[5] = "ERROR: ConnectionError"
    /\ results[1][2] = False
    /\ Len(results) = 4
    /\ results[2][2] = True

\* C5: every run ends; it ends only after the summary was printed with all
\* four cases recorded, and no exit code is set before the summary.
C5_AlwaysTerminatesAfterSummary ==
    /\ <>(pc = "done")
    /\ [](pc = "done" => SummaryPrinted /\ Len(results) = 4 /\ exitCode \in {0, 1})
    /\ [](exitCode /= -1 => SummaryPrinted)
    /\ [](pc = "done" => inflight = << >>)

C5_Witness ==
    /\ pc = "done"
    /\ results[4] = << "Health Check", False >>
    /\ \E i \in 1..Len(out) - 1 :
          out[i] = "Test 4: Health check" /\ out[i + 1] = "ERROR: Timeout"

\* C6 as stated: a send case that got a response is Passed when the status
\* is 200 or 201 and Failed for any other status.
C6_Original ==
    (pc = "return" /\ Running \in SendFns /\ reply.kind = "response") =>
        /\ reply.status \in {200, 201} => ret = True
        /\ reply.status \notin {200, 201} => ret = False

\* C6 amended: a send case that got a response is Passed when the status is
\* 200 or 201 and the body is well-formed JSON, and Failed otherwise.
C6_PassedIffAcceptedAndJson ==
    (pc = "return" /\ Running \in SendFns /\ reply.kind = "response") =>
        /\ (reply.status \in {200, 201} /\ reply.body = JsonBody) => ret = True
        /\ ~(reply.status \in {200, 201} /\ reply.body = JsonBody) => ret = False

C6_Witness ==
    /\ pc = "return" /\ Running = "test_telegram_with_keyboard"
    /\ reply.kind = "response" /\ reply.status = 201 /\ reply.body = JsonBody
    /\ ret = True

\* C7: the health check is Passed only on status 200; a response with any
\* other status, 201 included, is Failed.
C7_HealthOnly200 ==
    (pc = "return" /\ Running = "test_health_check") =>
        /\ ret = True => (reply.kind = "response" /\ reply.status = 200)
        /\ (reply.kind = "response" /\ reply.status /= 200) => ret = False

C7_Witness ==
    /\ pc = "return" /\ Running = "test_health_check"
    /\ reply.kind = "response" /\ reply.status = 201 /\ reply.body = JsonBody
    /\ ret = False

IsPrefix(s, t) == Len(s) <= Len(t) /\ \A i \in 1..Len(s) : s[i] = t[i]

\* C8: the test functions are entered in the order basic, keyboard,
\* credential, health, each once; a function is entered only when every
\* earlier one is recorded; the results keep that order; a finished run has
\* entered and recorded all four.
C8_FixedOrderOnce ==
    /\ IsPrefix(calls, << "test_basic_telegram", "test_telegram_with_keyboard",
                          "test_telegram_with_bot_token", "test_health_check" >>)
    /\ IsPrefix([i \in 1..Len(results) |-> results[i][1]],
                << "Basic Telegram", "Telegram with Keyboard",
                   "Telegram with Bot Token", "Health Check" >>)
    /\ Len(calls) = Len(results) + (IF pc \in {"await", "finish", "return"} THEN 1 ELSE 0)
    /\ Finished => Len(calls) = 4

C8_Witness ==
    /\ pc = "done"
    /\ Len(calls) = 4
    /\ results[1][2] = False /\ results[2][2] = True
    /\ results[3][2] = None /\ results[4][2] = False

\* C9: no test function issues more than one HTTP request, and a finished
\* run has issued 4 requests with a credential configured and 3 without.
C9_SingleAttempt ==
    /\ \A fn \in SendFns \cup {"test_health_check"} : Cardinality(RequestsBy(fn)) <= 1
    /\ Finished => Len(httpLog) = (IF CredentialConfigured THEN 4 ELSE 3)

C9_Witness ==
    /\ pc = "done"
    /\ CredentialConfigured
    /\ Len(httpLog) = 4
    /\ results[1][2] = False /\ results[3][2] = False
    /\ out[5] = "ERROR: Timeout"

\* C10: in every case a response with an accepted status whose body is not
\* well-formed JSON makes the parse raise, and the case is Failed with the
\* error printed; a case is Passed only on an accepted status with a body
\* that parsed.
C10_UnparsableBodyFails ==
    (pc = "return" /\ reply.kind = "response") =>
        LET accepted == IF Running = "test_health_check" THEN {200} ELSE {200, 201}
        IN /\ (reply.status \in accepted /\ reply.body /= JsonBody) =>
                  (ret = False /\ out[Len(out)] = "ERROR: JSONDecodeError")
           /\ ret = True => (reply.status \in accepted /\ reply.body = JsonBody)

C10_Witness ==
    /\ pc = "return" /\ Running = "test_health_check"
    /\ reply.kind = "response" /\ reply.status = 200 /\ reply.body = TextBody
    /\ ret = False

====
